---------------------------- MODULE Spec2Model ----------------------------
(***************************************************************************)
(* A model of csim.c, the set-associative cache simulator: command-line    *)
(* validation in main, cache construction in initializeCache, the trace    *)
(* loop of analyzeTrace and the two access routines processMemoryLoad and  *)
(* processMemoryAccess.                                                    *)
(*                                                                         *)
(* Lines of a set are indexed 0..lines_per_set-1 and sets                  *)
(* 0..num_sets-1, as in the C arrays.  The fields access_time and the      *)
(* array last_memory_access are written once by initializeCache and never  *)
(* read; they are left out.                                                *)
(***************************************************************************)
EXTENDS Integers, FiniteSets, Sequences, TLC

(***************************************************************************)
(* Bounds of the model.                                                    *)
(***************************************************************************)
\* -s, -E and -b take the values 0..MaxS, 0..MaxE, 0..MaxB (or are absent).
MaxS == 1
MaxE == 2
MaxB == 2
\* The trace holds at most MaxRecords records.
MaxRecords == 3
\* Address decomposition is compared on the addresses 0..MaxSample (and on
\* the all-ones address).
MaxSample == 40

(***************************************************************************)
(* Program constants.  address_t and the recency counters are unsigned     *)
(* long long; the model keeps them as naturals and lets the all-ones       *)
(* value be the largest integer TLC represents.                            *)
(***************************************************************************)
ULLONG_MAX == 2147483647
ULONG_MAX == 2147483647

\* An option that does not appear on the command line; an option that
\* does is <<v>>, v its argument.
Absent == <<>>

\* Addresses a trace record may carry: three block-aligned ones, one with
\* a non-zero block offset, and the all-ones address.
Addrs == {0, 1, 4, 8, ULLONG_MAX}

\* Operation letters a well-formed record may carry besides L, S and M.
OtherOps == {"I"}

VARIABLES
    argv,                   \* the command line: options s, E, b, t
    pc,                     \* position of the program
    set_bits, block_bits, lines_per_set, access_trace,
    num_sets, block_size, set_mask,
    main_cache,
    cycle_counter,
    hits, misses, evictions,
    evicted_dirty_bytes, active_dirty_bytes, repeated_accesses,
    last_accessed_address,
    operation, address,     \* the record fscanf read last (locals of analyzeTrace)
    scanned,                \* what the last call of fscanf returned (0: no call yet)
    nrec,                   \* records read from the trace so far
    touches,                \* history: calls of processMemoryAccess so far
    before                  \* history: the simulation state when the Modify
                            \* record in progress was read

config == <<set_bits, block_bits, lines_per_set, access_trace,
            num_sets, block_size, set_mask>>
vars == <<argv, pc, set_bits, block_bits, lines_per_set, access_trace,
          num_sets, block_size, set_mask, main_cache, cycle_counter,
          hits, misses, evictions, evicted_dirty_bytes, active_dirty_bytes,
          repeated_accesses, last_accessed_address, operation, address,
          scanned, nrec, touches, before>>

(***************************************************************************)
(* Bit operations on naturals.                                             *)
(***************************************************************************)
\* x >> n
Shr(x, n) == x \div (2 ^ n)

\* x & y
RECURSIVE BitAnd(_, _)
BitAnd(x, y) ==
    IF x = 0 \/ y = 0 THEN 0
    ELSE (x % 2) * (y % 2) + 2 * BitAnd(x \div 2, y \div 2)

(***************************************************************************)
(* The simulation state the access routines read and write, as one record. *)
(***************************************************************************)
Sim == [main_cache            |-> main_cache,
        cycle_counter         |-> cycle_counter,
        hits                  |-> hits,
        misses                |-> misses,
        evictions             |-> evictions,
        evicted_dirty_bytes   |-> evicted_dirty_bytes,
        active_dirty_bytes    |-> active_dirty_bytes,
        repeated_accesses     |-> repeated_accesses,
        last_accessed_address |-> last_accessed_address]

SetSim(g) ==
    /\ main_cache' = g.main_cache
    /\ cycle_counter' = g.cycle_counter
    /\ hits' = g.hits
    /\ misses' = g.misses
    /\ evictions' = g.evictions
    /\ evicted_dirty_bytes' = g.evicted_dirty_bytes
    /\ active_dirty_bytes' = g.active_dirty_bytes
    /\ repeated_accesses' = g.repeated_accesses
    /\ last_accessed_address' = g.last_accessed_address

\* A line as initializeCache leaves it.
cache_entry_t == [is_valid |-> 0, entry_tag |-> 0, usage_counter |-> 0, is_dirty |-> 0]

(***************************************************************************)
(* processMemoryLoad                                                       *)
(***************************************************************************)
\* A processMemoryLoad that counts a repeated load as a hit.
processMemoryLoad_Hit(g, mem_addr) ==
    [g EXCEPT
        !.repeated_accesses = IF g.last_accessed_address = mem_addr THEN @ + 1 ELSE @,
        !.hits = IF g.last_accessed_address = mem_addr THEN @ + 1 ELSE @,
        !.last_accessed_address = mem_addr]

processMemoryLoad(g, mem_addr) ==
    [g EXCEPT
        !.repeated_accesses = IF g.last_accessed_address = mem_addr THEN @ + 1 ELSE @,
        !.last_accessed_address = mem_addr]

(***************************************************************************)
(* processMemoryAccess                                                     *)
(***************************************************************************)
\* An index taken from the low bits of the address, block offset included.
SetIndex_NoShift(mem_addr) == BitAnd(mem_addr, set_mask)

\* index and tag_val of an address
SetIndex(mem_addr) == BitAnd(Shr(mem_addr, block_bits), set_mask)
TagVal(mem_addr) == Shr(mem_addr, set_bits + block_bits)

\* A search loop that stops one line early.
RECURSIVE FindHit_SkipLast(_, _, _)
FindHit_SkipLast(current_set, tag_val, i) ==
    IF i >= lines_per_set - 1 THEN -1
    ELSE IF current_set[i].is_valid = 1 /\ current_set[i].entry_tag = tag_val THEN i
    ELSE FindHit_SkipLast(current_set, tag_val, i + 1)

\* A search loop that looks at line i only.
FindHit_FirstOnly(current_set, tag_val, i) ==
    IF i >= lines_per_set THEN -1
    ELSE IF current_set[i].is_valid = 1 /\ current_set[i].entry_tag = tag_val THEN i
    ELSE -1

\* The search loop: the first line i..lines_per_set-1 that is valid and
\* holds tag_val, or -1 when the loop ends with found = 0.
RECURSIVE FindHit(_, _, _)
FindHit(current_set, tag_val, i) ==
    IF i >= lines_per_set THEN -1
    ELSE IF current_set[i].is_valid = 1 /\ current_set[i].entry_tag = tag_val THEN i
    ELSE FindHit(current_set, tag_val, i + 1)

\* A victim loop that takes an invalid line for a line of recency 0 and
\* compares with < only, so that the first invalid line wins.
RECURSIVE FindVictim_StrictLess(_, _, _, _)
FindVictim_StrictLess(current_set, i, evict_line, eviction_metric) ==
    LET recency == IF current_set[i].is_valid = 0 THEN 0
                   ELSE current_set[i].usage_counter
    IN IF i >= lines_per_set THEN evict_line
       ELSE IF recency < eviction_metric
            THEN FindVictim_StrictLess(current_set, i + 1, i, recency)
            ELSE FindVictim_StrictLess(current_set, i + 1, evict_line, eviction_metric)

\* A victim loop that never updates eviction_metric.
RECURSIVE FindVictim_KeepMetric(_, _, _, _)
FindVictim_KeepMetric(current_set, i, evict_line, eviction_metric) ==
    IF i >= lines_per_set THEN evict_line
    ELSE IF current_set[i].is_valid = 0 \/ current_set[i].usage_counter < eviction_metric
         THEN FindVictim_KeepMetric(current_set, i + 1, i, eviction_metric)
         ELSE FindVictim_KeepMetric(current_set, i + 1, evict_line, eviction_metric)

\* The victim loop from line i on, with the evict_line and eviction_metric
\* of the iterations before it: the value of evict_line when the loop ends.
RECURSIVE FindVictim(_, _, _, _)
FindVictim(current_set, i, evict_line, eviction_metric) ==
    IF i >= lines_per_set THEN evict_line
    ELSE IF current_set[i].is_valid = 0 \/ current_set[i].usage_counter < eviction_metric
         THEN FindVictim(current_set, i + 1, i, current_set[i].usage_counter)
         ELSE FindVictim(current_set, i + 1, evict_line, eviction_metric)

\* A victim choice with the comparison reversed: in a set without invalid
\* lines, the line touched last.
EvictLine_Newest(current_set) ==
    IF \E i \in 0..(lines_per_set - 1) : current_set[i].is_valid = 0
    THEN FindVictim(current_set, 0, 0, ULONG_MAX)
    ELSE CHOOSE v \in 0..(lines_per_set - 1) :
             \A j \in 0..(lines_per_set - 1) :
                 current_set[j].usage_counter <= current_set[v].usage_counter

\* evict_line as the miss branch computes it
EvictLine(current_set) == FindVictim(current_set, 0, 0, ULONG_MAX)

\* A hit that stamps the line with the clock and does not advance the clock.
HitUpdate_NoTick(g, index, i) ==
    LET line == g.main_cache[index][i] IN
    [g EXCEPT
        !.hits = @ + 1,
        !.main_cache[index][i].usage_counter = g.cycle_counter,
        !.main_cache[index][i].is_dirty = 1,
        !.active_dirty_bytes = IF line.is_dirty = 0 THEN @ + block_size ELSE @]

\* A hit that counts the bytes of a clean line and does not mark it dirty.
HitUpdate_NoMark(g, index, i) ==
    LET line == g.main_cache[index][i] IN
    [g EXCEPT
        !.hits = @ + 1,
        !.main_cache[index][i].usage_counter = g.cycle_counter,
        !.cycle_counter = @ + 1,
        !.active_dirty_bytes = IF line.is_dirty = 0 THEN @ + block_size ELSE @]

\* A hit that adds block_size to active_dirty_bytes without testing is_dirty.
HitUpdate_AlwaysAdd(g, index, i) ==
    [g EXCEPT
        !.hits = @ + 1,
        !.main_cache[index][i].usage_counter = g.cycle_counter,
        !.cycle_counter = @ + 1,
        !.main_cache[index][i].is_dirty = 1,
        !.active_dirty_bytes = @ + block_size]

\* The body of the search loop at the line i that hits.
HitUpdate(g, index, i) ==
    LET line == g.main_cache[index][i] IN
    [g EXCEPT
        !.hits = @ + 1,
        !.main_cache[index][i].usage_counter = g.cycle_counter,
        !.cycle_counter = @ + 1,
        !.main_cache[index][i].is_dirty = 1,
        !.active_dirty_bytes = IF line.is_dirty = 0 THEN @ + block_size ELSE @]

\* A miss branch that marks the line it installs dirty.
MissUpdate_DirtyInstall(g, index, tag_val) ==
    LET current_set == g.main_cache[index]
        evict_line == FindVictim(current_set, 0, 0, ULONG_MAX)
        victim == current_set[evict_line]
        evicted == victim.is_valid = 1
        dirty == evicted /\ victim.is_dirty = 1
    IN
    [g EXCEPT
        !.misses = @ + 1,
        !.evictions = IF evicted THEN @ + 1 ELSE @,
        !.evicted_dirty_bytes = IF dirty THEN @ + block_size ELSE @,
        !.active_dirty_bytes = IF dirty THEN @ - block_size ELSE @,
        !.main_cache[index][evict_line] =
            [is_valid |-> 1, entry_tag |-> tag_val,
             usage_counter |-> g.cycle_counter, is_dirty |-> 1],
        !.cycle_counter = @ + 1]

\* A miss branch that counts an eviction without testing is_valid.
MissUpdate_CountFill(g, index, tag_val) ==
    LET current_set == g.main_cache[index]
        evict_line == FindVictim(current_set, 0, 0, ULONG_MAX)
        victim == current_set[evict_line]
        dirty == victim.is_valid = 1 /\ victim.is_dirty = 1
    IN
    [g EXCEPT
        !.misses = @ + 1,
        !.evictions = @ + 1,
        !.evicted_dirty_bytes = IF dirty THEN @ + block_size ELSE @,
        !.active_dirty_bytes = IF dirty THEN @ - block_size ELSE @,
        !.main_cache[index][evict_line] =
            [is_valid |-> 1, entry_tag |-> tag_val,
             usage_counter |-> g.cycle_counter, is_dirty |-> 0],
        !.cycle_counter = @ + 1]

\* A miss branch that moves the bytes of every evicted line, dirty or clean.
MissUpdate_MoveClean(g, index, tag_val) ==
    LET current_set == g.main_cache[index]
        evict_line == FindVictim(current_set, 0, 0, ULONG_MAX)
        victim == current_set[evict_line]
        evicted == victim.is_valid = 1
    IN
    [g EXCEPT
        !.misses = @ + 1,
        !.evictions = IF evicted THEN @ + 1 ELSE @,
        !.evicted_dirty_bytes = IF evicted THEN @ + block_size ELSE @,
        !.active_dirty_bytes = IF evicted THEN @ - block_size ELSE @,
        !.main_cache[index][evict_line] =
            [is_valid |-> 1, entry_tag |-> tag_val,
             usage_counter |-> g.cycle_counter, is_dirty |-> 0],
        !.cycle_counter = @ + 1]

\* A miss branch that does not store the tag in the line it installs.
MissUpdate_StaleTag(g, index, tag_val) ==
    LET current_set == g.main_cache[index]
        evict_line == FindVictim(current_set, 0, 0, ULONG_MAX)
        victim == current_set[evict_line]
        evicted == victim.is_valid = 1
        dirty == evicted /\ victim.is_dirty = 1
    IN
    [g EXCEPT
        !.misses = @ + 1,
        !.evictions = IF evicted THEN @ + 1 ELSE @,
        !.evicted_dirty_bytes = IF dirty THEN @ + block_size ELSE @,
        !.active_dirty_bytes = IF dirty THEN @ - block_size ELSE @,
        !.main_cache[index][evict_line] =
            [is_valid |-> 1, entry_tag |-> victim.entry_tag,
             usage_counter |-> g.cycle_counter, is_dirty |-> 0],
        !.cycle_counter = @ + 1]

\* The miss branch.
MissUpdate(g, index, tag_val) ==
    LET current_set == g.main_cache[index]
        evict_line == EvictLine(current_set)
        victim == current_set[evict_line]
        evicted == victim.is_valid = 1
        dirty == evicted /\ victim.is_dirty = 1
    IN
    [g EXCEPT
        !.misses = @ + 1,
        !.evictions = IF evicted THEN @ + 1 ELSE @,
        !.evicted_dirty_bytes = IF dirty THEN @ + block_size ELSE @,
        !.active_dirty_bytes = IF dirty THEN @ - block_size ELSE @,
        !.main_cache[index][evict_line] =
            [is_valid |-> 1, entry_tag |-> tag_val,
             usage_counter |-> g.cycle_counter, is_dirty |-> 0],
        !.cycle_counter = @ + 1]

\* Bookkeeping that does not test ignore_repeat.
TrackRepeat_NoIgnore(g, mem_addr, ignore_repeat) ==
    [g EXCEPT
        !.repeated_accesses = IF g.last_accessed_address = mem_addr THEN @ + 1 ELSE @,
        !.last_accessed_address = mem_addr]

\* The repeated-access bookkeeping that ends processMemoryAccess.
TrackRepeat(g, mem_addr, ignore_repeat) ==
    [g EXCEPT
        !.repeated_accesses =
            IF g.last_accessed_address = mem_addr /\ ignore_repeat = 0 THEN @ + 1 ELSE @,
        !.last_accessed_address = mem_addr]

\* A processMemoryAccess whose hit does not set found, so that the miss
\* branch runs after it.
processMemoryAccess_NoFound(g, mem_addr, ignore_repeat) ==
    LET index == SetIndex(mem_addr)
        tag_val == TagVal(mem_addr)
        i == FindHit(g.main_cache[index], tag_val, 0)
        looked == IF i >= 0 THEN MissUpdate(HitUpdate(g, index, i), index, tag_val)
                            ELSE MissUpdate(g, index, tag_val)
    IN TrackRepeat(looked, mem_addr, ignore_repeat)

processMemoryAccess(g, mem_addr, ignore_repeat) ==
    LET index == SetIndex(mem_addr)
        tag_val == TagVal(mem_addr)
        i == FindHit(g.main_cache[index], tag_val, 0)
        looked == IF i >= 0 THEN HitUpdate(g, index, i)
                            ELSE MissUpdate(g, index, tag_val)
    IN TrackRepeat(looked, mem_addr, ignore_repeat)

(***************************************************************************)
(* main: option parsing, validation, derived values, initializeCache.      *)
(***************************************************************************)
\* atoi(optarg) for an option that is present; the global keeps its
\* initial value 0 when the option is absent.
OptValue(opt) == IF opt = Absent THEN 0 ELSE opt[1]

\* The test that sends main to usage().
MissingArgument(s, E, b, t) == s = 0 \/ E = 0 \/ b = 0 \/ t = Absent

initializeCache(sets, lines) ==
    [i \in 0..(sets - 1) |-> [j \in 0..(lines - 1) |-> cache_entry_t]]

main ==
    /\ pc = "main"
    /\ set_bits' = OptValue(argv.s)
    /\ lines_per_set' = OptValue(argv.E)
    /\ block_bits' = OptValue(argv.b)
    /\ access_trace' = argv.t
    /\ IF MissingArgument(set_bits', lines_per_set', block_bits', access_trace')
       THEN /\ pc' = "usage"
            /\ UNCHANGED <<num_sets, block_size, set_mask, main_cache>>
       ELSE /\ pc' = "scan"
            /\ num_sets' = 2 ^ set_bits'
            /\ block_size' = 2 ^ block_bits'
            /\ main_cache' = initializeCache(num_sets', lines_per_set')
            /\ set_mask' = (2 ^ set_bits') - 1
    /\ UNCHANGED <<argv, cycle_counter, hits, misses, evictions,
                   evicted_dirty_bytes, active_dirty_bytes, repeated_accesses,
                   last_accessed_address, operation, address, scanned, nrec,
                   touches, before>>

(***************************************************************************)
(* analyzeTrace: one action per kind of record the loop reads.             *)
(***************************************************************************)
\* fscanf returned 3 with this operation letter and address.
ReadRecord(op, a) ==
    /\ pc = "scan"
    /\ nrec < MaxRecords
    /\ scanned' = 3
    /\ nrec' = nrec + 1
    /\ operation' = op
    /\ address' = a

NoSnapshot == <<>>

\* case 'L': processMemoryLoad, then (no break) the Store case.
LoadRecord(a) ==
    /\ ReadRecord("L", a)
    /\ SetSim(processMemoryAccess(processMemoryLoad(Sim, a), a, 0))
    /\ touches' = touches + 1
    /\ UNCHANGED <<argv, pc, config, before>>

Load == \E a \in Addrs : LoadRecord(a)

\* case 'S'
StoreRecord(a) ==
    /\ ReadRecord("S", a)
    /\ SetSim(processMemoryAccess(Sim, a, 0))
    /\ touches' = touches + 1
    /\ UNCHANGED <<argv, pc, config, before>>

Store == \E a \in Addrs : StoreRecord(a)

\* case 'M', first call
ModifyRecord(a) ==
    /\ ReadRecord("M", a)
    /\ SetSim(processMemoryAccess(Sim, a, 0))
    /\ touches' = touches + 1
    /\ before' = <<Sim>>
    /\ pc' = "M2"
    /\ UNCHANGED <<argv, config>>

Modify == \E a \in Addrs : ModifyRecord(a)

\* case 'M', second call
ModifySecond ==
    /\ pc = "M2"
    /\ SetSim(processMemoryAccess(Sim, address, 1))
    /\ touches' = touches + 1
    /\ before' = NoSnapshot
    /\ pc' = "scan"
    /\ UNCHANGED <<argv, config, operation, address, scanned, nrec>>

\* A default case that falls into the Store case.
Other_AsStore ==
    \E op \in OtherOps, a \in Addrs :
        /\ ReadRecord(op, a)
        /\ SetSim(processMemoryAccess(Sim, a, 0))
        /\ touches' = touches + 1
        /\ UNCHANGED <<argv, pc, config, before>>

\* default: any other operation letter
Other ==
    \E op \in OtherOps, a \in Addrs :
        /\ ReadRecord(op, a)
        /\ UNCHANGED <<argv, pc, config, main_cache, cycle_counter, hits, misses,
                       evictions, evicted_dirty_bytes, active_dirty_bytes,
                       repeated_accesses, last_accessed_address, touches, before>>

\* A loop condition that leaves the loop at the end of the file only.
LoopExit_AtEOF(n) == n = -1

\* The loop condition: the loop is left when fscanf does not return 3.
LoopExit(n) == n # 3

\* Where the program goes when fscanf returned n without a whole record:
\* out of the loop, where clearCache frees the store and main prints the
\* counters, or to the next call of fscanf.
LeaveOrGoOn(n) ==
    /\ pc = "scan"
    /\ scanned' = n
    /\ IF LoopExit(n)
       THEN pc' = "done" /\ main_cache' = <<>>
       ELSE pc' = "scan" /\ main_cache' = main_cache
    /\ UNCHANGED <<argv, config, cycle_counter, hits, misses, evictions,
                   evicted_dirty_bytes, active_dirty_bytes, repeated_accesses,
                   last_accessed_address, nrec, touches, before>>

\* fscanf met the end of the file: it returns EOF and assigns nothing.
EndOfTrace ==
    /\ LeaveOrGoOn(-1)
    /\ UNCHANGED <<operation, address>>

\* Operation letters and addresses a record that does not parse may
\* begin with.
BadOps == {"L"} \cup OtherOps
BadAddrs == {0, ULLONG_MAX}

\* fscanf met a record that does not parse: it returns 1 when the address
\* does not parse (the operation letter is assigned) and 2 when the comma
\* or the size does not (letter and address are assigned).
MalformedRecord ==
    \E n \in {1, 2}, op \in BadOps, a \in BadAddrs :
        /\ LeaveOrGoOn(n)
        /\ operation' = op
        /\ address' = IF n = 2 THEN a ELSE address

(***************************************************************************)
(* The program.                                                            *)
(***************************************************************************)
Init ==
    /\ argv \in [s : {Absent} \cup {<<v>> : v \in 0..MaxS},
                 E : {Absent} \cup {<<v>> : v \in 0..MaxE},
                 b : {Absent} \cup {<<v>> : v \in 0..MaxB},
                 t : {Absent, <<"trace">>}]
    /\ pc = "main"
    /\ set_bits = 0
    /\ block_bits = 0
    /\ lines_per_set = 0
    /\ access_trace = Absent
    /\ num_sets = 0
    /\ block_size = 0
    /\ set_mask = 0
    /\ main_cache = <<>>
    /\ cycle_counter = 1
    /\ hits = 0
    /\ misses = 0
    /\ evictions = 0
    /\ evicted_dirty_bytes = 0
    /\ active_dirty_bytes = 0
    /\ repeated_accesses = 0
    /\ last_accessed_address = ULLONG_MAX
    /\ operation = "none"
    /\ address = 0
    /\ scanned = 0
    /\ nrec = 0
    /\ touches = 0
    /\ before = NoSnapshot

Next ==
    \/ main
    \/ Load
    \/ Store
    \/ Modify
    \/ ModifySecond
    \/ Other
    \/ EndOfTrace
    \/ MalformedRecord

Spec == Init /\ [][Next]_vars

(***************************************************************************)
(* Vocabulary of the properties.                                           *)
(***************************************************************************)
Lines == 0..(lines_per_set - 1)
Sets == 0..(num_sets - 1)

\* This step is one call of processMemoryAccess; its argument is address'.
TouchStep == touches' = touches + 1

\* The lines of set s that are valid and hold tag t, before the step.
Holding(s, t) ==
    {i \in Lines : main_cache[s][i].is_valid = 1 /\ main_cache[s][i].entry_tag = t}

Resident(a) == Holding(SetIndex(a), TagVal(a)) # {}
HitStep == TouchStep /\ Resident(address')
MissStep == TouchStep /\ ~Resident(address')

\* The lines of set s that are invalid, before the step.
InvalidLines(s) == {i \in Lines : main_cache[s][i].is_valid = 0}
SetFull(s) == InvalidLines(s) = {}

\* The lines of set s the step wrote: a hit and an insertion both store the
\* clock value of before the step in the line they touch.
Written(s) == {i \in Lines : main_cache'[s][i].usage_counter = cycle_counter}

\* Every line but line v of set s is as it was.
OthersKept(s, v) ==
    /\ \A j \in Lines \ {v} : main_cache'[s][j] = main_cache[s][j]
    /\ \A r \in Sets \ {s} : main_cache'[r] = main_cache[r]

\* This step finishes a Load or Store record.
LoadStoreStep == nrec' = nrec + 1 /\ operation' \in {"L", "S"}

(***************************************************************************)
(* C1.  A Load or Store record adds 1 to repeated_accesses when its        *)
(* address is the address processed just before it (the value of the       *)
(* tracker), and 0 otherwise.                                              *)
(***************************************************************************)
C1_LoadStoreRepeat ==
    [][LoadStoreStep =>
         repeated_accesses' = repeated_accesses +
             (IF address' = last_accessed_address THEN 1 ELSE 0)]_vars

(***************************************************************************)
(* C2.  As claimed: every Modify record adds exactly 1 to                  *)
(* repeated_accesses, whatever address was processed before it.            *)
(***************************************************************************)
C2_ModifyAddsOne ==
    [][pc = "M2" => repeated_accesses' = before[1].repeated_accesses + 1]_vars

(***************************************************************************)
(* C2, amended.  A Modify record adds 1 to repeated_accesses when its      *)
(* address is the value the tracker holds when the record is read, and 0   *)
(* otherwise: its first call counts the repeat, its second call never      *)
(* counts.                                                                 *)
(***************************************************************************)
C2_ModifyRepeat ==
    [][pc = "M2" =>
         LET old == before[1]
             same == IF old.last_accessed_address = address THEN 1 ELSE 0
         IN /\ repeated_accesses = old.repeated_accesses + same
            /\ repeated_accesses' = repeated_accesses
            /\ repeated_accesses' = old.repeated_accesses + same]_vars

\* The trace of the single record M 0 has ended with repeated_accesses = 0.
C2_Witness ==
    /\ pc = "done"
    /\ nrec = 1
    /\ operation = "M"
    /\ address = 0
    /\ touches = 2
    /\ repeated_accesses = 0

C4_LowestInvalid ==
    [][(MissStep /\ Cardinality(InvalidLines(SetIndex(address'))) >= 2) =>
         LET s == SetIndex(address') IN
         \E v \in InvalidLines(s) :
             /\ \A j \in InvalidLines(s) : v <= j
             /\ main_cache'[s][v].is_valid = 1
             /\ OthersKept(s, v)]_vars

(***************************************************************************)
(* C4, amended.  A miss in a set with two or more invalid lines installs   *)
(* the block in the invalid line of highest index, so a fresh set is       *)
(* filled in the order E-1, ..., 1, 0.                                     *)
(***************************************************************************)
C4_HighestInvalid ==
    [][(MissStep /\ Cardinality(InvalidLines(SetIndex(address'))) >= 2) =>
         LET s == SetIndex(address') IN
         \E v \in InvalidLines(s) :
             /\ \A j \in InvalidLines(s) : v >= j
             /\ main_cache'[s][v].is_valid = 1
             /\ main_cache'[s][v].entry_tag = TagVal(address')
             /\ OthersKept(s, v)]_vars

\* One miss in a fresh set of two lines: line 1 is valid, line 0 is not.
C4_Witness ==
    /\ pc = "scan"
    /\ lines_per_set = 2
    /\ misses = 1
    /\ \E s \in Sets :
         /\ main_cache[s][1].is_valid = 1
         /\ main_cache[s][0].is_valid = 0

C6_CleanInstall ==
    [][/\ MissStep =>
            LET s == SetIndex(address') IN
            \E v \in Lines :
                /\ Written(s) = {v}
                /\ main_cache'[s][v].is_valid = 1
                /\ main_cache'[s][v].entry_tag = TagVal(address')
                /\ main_cache'[s][v].is_dirty = 0
       /\ hits' = 0 => (active_dirty_bytes' = 0 /\ evicted_dirty_bytes' = 0)]_vars

\* Three Store records, none a hit, the last of them evicting a line.
C6_Witness ==
    /\ pc = "scan"
    /\ operation = "S"
    /\ nrec = 3
    /\ touches = 3
    /\ hits = 0
    /\ misses = 3
    /\ evictions >= 1
    /\ \E s \in Sets : \E v \in Lines :
         /\ main_cache[s][v].usage_counter = cycle_counter - 1
         /\ main_cache[s][v].is_dirty = 0

(***************************************************************************)
(* C7.  A miss adds 1 to misses and leaves hits alone; it adds 1 to        *)
(* evictions exactly when the line it replaces was valid; when that line   *)
(* was valid and dirty it moves block_size from active_dirty_bytes to      *)
(* evicted_dirty_bytes, and otherwise it leaves both alone.                *)
(***************************************************************************)
C7_Miss ==
    [][MissStep =>
         LET s == SetIndex(address') IN
         /\ misses' = misses + 1
         /\ hits' = hits
         /\ \E v \in Lines :
              LET victim == main_cache[s][v]
                  valid == victim.is_valid = 1
                  dirty == valid /\ victim.is_dirty = 1
              IN /\ Written(s) = {v}
                 /\ evictions' = evictions + (IF valid THEN 1 ELSE 0)
                 /\ evicted_dirty_bytes' =
                        evicted_dirty_bytes + (IF dirty THEN block_size ELSE 0)
                 /\ active_dirty_bytes' =
                        active_dirty_bytes - (IF dirty THEN block_size ELSE 0)
                 /\ evicted_dirty_bytes' + active_dirty_bytes' =
                        evicted_dirty_bytes + active_dirty_bytes]_vars

\* Misses have filled a line, evicted a clean line and evicted a dirty line.
C7_Witness ==
    /\ pc = "scan"
    /\ misses = 3
    /\ evictions = 2
    /\ evicted_dirty_bytes = block_size
    /\ block_size > 0

(***************************************************************************)
(* C8.  active_dirty_bytes is never negative; a step that increases it is  *)
(* a hit on a line that was clean, and a step that decreases it is a miss  *)
(* that replaces a line that was valid and dirty.                          *)
(***************************************************************************)
C8_ActiveDirty ==
    [][/\ active_dirty_bytes >= 0
       /\ active_dirty_bytes' >= 0
       /\ active_dirty_bytes' > active_dirty_bytes =>
            /\ HitStep
            /\ \A i \in Holding(SetIndex(address'), TagVal(address')) :
                   main_cache[SetIndex(address')][i].is_dirty = 0
       /\ active_dirty_bytes' < active_dirty_bytes =>
            /\ MissStep
            /\ \A v \in Written(SetIndex(address')) :
                   /\ main_cache[SetIndex(address')][v].is_valid = 1
                   /\ main_cache[SetIndex(address')][v].is_dirty = 1]_vars

\* active_dirty_bytes went up on a hit and back to 0 on the eviction of the
\* line.
C8_Witness ==
    /\ pc = "scan"
    /\ hits = 1
    /\ evictions = 1
    /\ active_dirty_bytes = 0
    /\ evicted_dirty_bytes = block_size
    /\ block_size > 0

(***************************************************************************)
(* Traces in which every set sees one block only: a record is read only    *)
(* when the set of its address is fresh or holds the block of its address. *)
(***************************************************************************)
OneBlock(a) == InvalidLines(SetIndex(a)) = Lines \/ Resident(a)

RepeatLoad == \E a \in Addrs : pc = "scan" /\ OneBlock(a) /\ LoadRecord(a)
RepeatStore == \E a \in Addrs : pc = "scan" /\ OneBlock(a) /\ StoreRecord(a)
RepeatModify == \E a \in Addrs : pc = "scan" /\ OneBlock(a) /\ ModifyRecord(a)

NextRepeat ==
    \/ main
    \/ RepeatLoad
    \/ RepeatStore
    \/ RepeatModify
    \/ ModifySecond
    \/ Other
    \/ EndOfTrace
    \/ MalformedRecord

SpecRepeat == Init /\ [][NextRepeat]_vars

\* The sets that hold a valid line.
UsedSets == {s \in Sets : InvalidLines(s) # Lines}

(***************************************************************************)
(* C9.  From a fresh store, when no set is touched at two different        *)
(* blocks, the first touch of each set is a miss and every other touch is  *)
(* a hit: misses is the number of sets touched, hits is the number of      *)
(* touches less misses, and evictions is 0.  N touches of one address      *)
(* give 1 miss, N-1 hits and no eviction.                                  *)
(***************************************************************************)
C9_RepeatCounts ==
    pc \in {"scan", "M2"} =>
        /\ evictions = 0
        /\ misses = Cardinality(UsedSets)
        /\ hits = touches - misses
        /\ touches >= 1 => misses >= 1
        /\ \A s \in UsedSets : Cardinality(Lines \ InvalidLines(s)) = 1
        /\ (touches >= 1 /\ Cardinality(UsedSets) = 1) =>
               (misses = 1 /\ hits = touches - 1)

\* Four touches of one set: 1 miss, 3 hits.
C9_Witness ==
    /\ pc = "scan"
    /\ touches = 4
    /\ Cardinality(UsedSets) = 1
    /\ misses = 1
    /\ hits = 3
    /\ evictions = 0

(***************************************************************************)
(* C10.  A command line that gives -s S, -E E, -b B with S >= 0, E >= 1,   *)
(* B >= 0 and a trace is not rejected, and the simulation runs with        *)
(* num_sets = 2^S and block_size = 2^B.                                    *)
(***************************************************************************)
C10_SuppliedAccepted ==
    (/\ pc # "main"
     /\ argv.s # Absent
     /\ argv.E # Absent
     /\ argv.b # Absent
     /\ argv.t # Absent
     /\ argv.E[1] >= 1) =>
        /\ pc # "usage"
        /\ num_sets = 2 ^ argv.s[1]
        /\ block_size = 2 ^ argv.b[1]

(***************************************************************************)
(* Vocabulary of C11..C20.                                                 *)
(***************************************************************************)
\* The six counters main hands to printSummary.
Counters == <<hits, misses, evictions, evicted_dirty_bytes,
              active_dirty_bytes, repeated_accesses>>

\* fscanf has returned something other than a whole record.
Stopped == scanned \notin {0, 3}

(***************************************************************************)
(* C11.  When fscanf meets a record that does not parse, the trace loop    *)
(* ends there: the program goes on to print its summary (no error), the    *)
(* six counters are those the records before it left, and nothing is       *)
(* processed afterwards (no step at all follows).                          *)
(***************************************************************************)
C11_Truncation ==
    [][/\ ~Stopped
       /\ Stopped' =>
            /\ pc' = "done"
            /\ Counters' = Counters
            /\ touches' = touches
            /\ nrec' = nrec]_vars

\* One record was processed, the second did not parse (its size or comma),
\* and the trace could have held more records.
C11_Witness ==
    /\ pc = "done"
    /\ scanned = 2
    /\ nrec = 1
    /\ nrec < MaxRecords
    /\ misses = 1
    /\ touches = 1

(***************************************************************************)
(* C12.  A record whose operation letter is not L, S or M changes no       *)
(* counter, no cache line, not the clock and not the tracker, and the      *)
(* loop goes on to the next record.                                        *)
(***************************************************************************)
C12_OtherSkipped ==
    [][(scanned' = 3 /\ nrec' = nrec + 1 /\ operation' \notin {"L", "S", "M"}) =>
         /\ Counters' = Counters
         /\ main_cache' = main_cache
         /\ cycle_counter' = cycle_counter
         /\ last_accessed_address' = last_accessed_address
         /\ touches' = touches
         /\ pc' = "scan"]_vars

\* An I record was read after a record that touched the cache, and the
\* loop is ready for the next record.
C12_Witness ==
    /\ pc = "scan"
    /\ operation = "I"
    /\ nrec = 2
    /\ touches = 1
    /\ misses = 1
    /\ cycle_counter = 2

\* What a record leaves of the cache and of the five counters that do not
\* count repeats.
CacheView(g) ==
    <<g.main_cache, g.cycle_counter, g.hits, g.misses, g.evictions,
      g.evicted_dirty_bytes, g.active_dirty_bytes>>

C14_Modify ==
    [][pc = "M2" =>
         LET old == before[1]
             s == SetIndex(address)
         IN /\ last_accessed_address = address
            /\ last_accessed_address' = address
            /\ touches' = touches + 1
            /\ hits' = hits + 1
            /\ misses' = misses
            /\ hits' + misses' = old.hits + old.misses + 2
            /\ hits' >= old.hits + 1
            /\ misses' <= old.misses + 1
            /\ evictions' <= old.evictions + 1
            /\ evictions' >= old.evictions
            /\ \E i \in Lines :
                 /\ main_cache'[s][i].is_valid = 1
                 /\ main_cache'[s][i].entry_tag = TagVal(address)
                 /\ main_cache'[s][i].is_dirty = 1
            /\ pc' = "scan"]_vars

\* A Modify record that missed, evicted a line and hit is done.
C14_Witness ==
    /\ pc = "scan"
    /\ operation = "M"
    /\ nrec = 2
    /\ touches = 3
    /\ hits = 1
    /\ misses = 2
    /\ evictions = 1
    /\ active_dirty_bytes = block_size

\* The addresses address decomposition is compared on.
Sample == 0..MaxSample \cup {ULLONG_MAX}

\* The block number of the block line i of set s holds.
BlockOf(cache, s, i) == cache[s][i].entry_tag * num_sets + s

(***************************************************************************)
(* C15.  The set index of an address is (address >> B) mod 2^S and its tag *)
(* is address >> (S+B); two addresses have the same set index and tag      *)
(* exactly when they have the same block number address >> B.  A touch is  *)
(* a hit exactly when a valid line holds the block number of its address,  *)
(* whatever the low B bits, and after the touch a line holds that block    *)
(* number.                                                                 *)
(***************************************************************************)
C15_Decomposition ==
    [][/\ (pc = "scan" /\ nrec = 0) =>
            \A a \in Sample :
                /\ SetIndex(a) = (a \div (2 ^ block_bits)) % (2 ^ set_bits)
                /\ TagVal(a) = a \div (2 ^ (set_bits + block_bits))
                /\ \A b \in Sample :
                     (SetIndex(a) = SetIndex(b) /\ TagVal(a) = TagVal(b))
                        <=> (a \div (2 ^ block_bits) = b \div (2 ^ block_bits))
       /\ TouchStep =>
            LET block == address' \div block_size IN
            /\ hits' = hits + 1 <=>
                 \E s \in Sets : \E i \in Lines :
                     /\ main_cache[s][i].is_valid = 1
                     /\ BlockOf(main_cache, s, i) = block
            /\ misses' = misses + 1 <=>
                 \A s \in Sets : \A i \in Lines :
                     main_cache[s][i].is_valid = 1 => BlockOf(main_cache, s, i) # block
            /\ \E s \in Sets : \E i \in Lines :
                 /\ main_cache'[s][i].is_valid = 1
                 /\ main_cache'[s][i].usage_counter = cycle_counter
                 /\ BlockOf(main_cache', s, i) = block]_vars

\* Address 0 missed, and the first touch of a Modify of address 1, in the
\* same block, hit.
C15_Witness ==
    /\ pc = "M2"
    /\ address = 1
    /\ before[1].last_accessed_address = 0
    /\ before[1].misses = 1
    /\ before[1].hits = 0
    /\ misses = 1
    /\ hits = 1

(***************************************************************************)
(* C16.  A miss in a set with an invalid line installs the block in an     *)
(* invalid line, leaves every other line as it was and leaves evictions    *)
(* alone; evictions grows only on a miss in a set whose lines are all      *)
(* valid.                                                                  *)
(***************************************************************************)
C16_FillBeforeEvict ==
    [][/\ (MissStep /\ ~SetFull(SetIndex(address'))) =>
            LET s == SetIndex(address') IN
            /\ \E v \in InvalidLines(s) :
                 /\ Written(s) = {v}
                 /\ main_cache'[s][v].is_valid = 1
                 /\ OthersKept(s, v)
            /\ evictions' = evictions
       /\ evictions' # evictions =>
            /\ MissStep
            /\ SetFull(SetIndex(address'))
            /\ evictions' = evictions + 1]_vars

\* Two misses have filled a set of two lines without an eviction.
C16_Witness ==
    /\ pc = "scan"
    /\ lines_per_set = 2
    /\ misses = 2
    /\ evictions = 0
    /\ \E s \in Sets : InvalidLines(s) = {}

\* The store exists: initializeCache has built it and clearCache has not
\* freed it.
StoreLive == pc \in {"scan", "M2"}

\* The (set, line) pairs of the valid lines of a store.
ValidIn(cache) ==
    {sl \in Sets \X Lines : cache[sl[1]][sl[2]].is_valid = 1}
DirtyIn(cache) ==
    {sl \in ValidIn(cache) : cache[sl[1]][sl[2]].is_dirty = 1}

\* The recency invariant of a store under a clock value.
RecencyOk(cache, clock) ==
    /\ \A sl \in ValidIn(cache) :
         /\ cache[sl[1]][sl[2]].usage_counter >= 1
         /\ cache[sl[1]][sl[2]].usage_counter < clock
         /\ \A tm \in ValidIn(cache) \ {sl} :
                cache[tm[1]][tm[2]].usage_counter # cache[sl[1]][sl[2]].usage_counter
    /\ \A sl \in (Sets \X Lines) \ ValidIn(cache) :
         cache[sl[1]][sl[2]].usage_counter = 0

(***************************************************************************)
(* C17.  While the store exists the recency values of its valid lines are  *)
(* pairwise distinct, at least 1 and less than the clock, and every        *)
(* invalid line has recency 0; the clock grows by exactly 1 on every hit   *)
(* and every insertion and changes on no other step.                       *)
(***************************************************************************)
C17_Recency ==
    [][/\ StoreLive => RecencyOk(main_cache, cycle_counter)
       /\ StoreLive' => RecencyOk(main_cache', cycle_counter')
       /\ cycle_counter' = cycle_counter + (IF TouchStep THEN 1 ELSE 0)
       /\ TouchStep <=> (hits' + misses' = hits + misses + 1)]_vars

\* Three lines are valid after a hit and three insertions.
C17_Witness ==
    /\ pc = "scan"
    /\ cycle_counter = 5
    /\ hits = 1
    /\ Cardinality(ValidIn(main_cache)) = 3

\* The valid lines of set s of a store.
ValidLines(cache, s) == {i \in Lines : cache[s][i].is_valid = 1}

(***************************************************************************)
(* C18.  While the store exists no set holds two valid lines with the      *)
(* same tag; a line that is valid stays valid, so the number of valid      *)
(* lines of a set never decreases, and it never exceeds E.                 *)
(***************************************************************************)
C18_ValidLines ==
    [][StoreLive' =>
         \A s \in Sets :
             /\ \A i \in ValidLines(main_cache', s) :
                  \A j \in ValidLines(main_cache', s) \ {i} :
                      main_cache'[s][i].entry_tag # main_cache'[s][j].entry_tag
             /\ Cardinality(ValidLines(main_cache', s)) <= lines_per_set'
             /\ DOMAIN main_cache'[s] = 0..(lines_per_set' - 1)
             /\ StoreLive =>
                  /\ ValidLines(main_cache, s) \subseteq ValidLines(main_cache', s)
                  /\ Cardinality(ValidLines(main_cache, s))
                        <= Cardinality(ValidLines(main_cache', s))]_vars

\* A set of two lines is full, holds two tags and has seen an eviction.
C18_Witness ==
    /\ pc = "scan"
    /\ lines_per_set = 2
    /\ evictions = 1
    /\ \E s \in Sets :
         /\ ValidLines(main_cache, s) = {0, 1}
         /\ main_cache[s][0].entry_tag # main_cache[s][1].entry_tag

\* This step is a hit on a line that was clean.
CleanHitStep ==
    /\ HitStep
    /\ \E i \in Holding(SetIndex(address'), TagVal(address')) :
           main_cache[SetIndex(address')][i].is_dirty = 0

C20_Counting ==
    [][/\ hits + misses = touches
       /\ hits' + misses' = touches'
       /\ LoadStoreStep => hits' + misses' = hits + misses + 1
       /\ pc' = "M2" => hits' + misses' = hits + misses + 1
       /\ pc = "M2" => hits' + misses' = before[1].hits + before[1].misses + 2
       /\ ~TouchStep => hits' + misses' = hits + misses
       /\ TouchStep <=> (LoadStoreStep \/ pc' = "M2" \/ pc = "M2")
       /\ StoreLive' =>
            evictions' = misses' - Cardinality(ValidIn(main_cache'))
       /\ hits' >= hits
       /\ misses' >= misses
       /\ evictions' >= evictions
       /\ evicted_dirty_bytes' >= evicted_dirty_bytes
       /\ repeated_accesses' >= repeated_accesses]_vars

\* A Store, a Modify and a Load record made four touches, one of them an
\* eviction.
C20_Witness ==
    /\ pc = "scan"
    /\ nrec = 3
    /\ operation = "L"
    /\ touches = 4
    /\ hits + misses = 4
    /\ evictions = 1
    /\ Cardinality(ValidIn(main_cache)) = misses - 1

=============================================================================
